---- MODULE Spec2Model ----
(***************************************************************************)
(* Model of litex/soc/interconnect/csr_eventmanager.py: the event sources  *)
(* (EventSourcePulse, EventSourceProcess, EventSourceLevel), the           *)
(* EventManager that collects them, and the logic do_finalize generates.   *)
(*                                                                         *)
(* Four specifications share the variables:                                *)
(*   Spec     elaboration: sources are created, assigned to attributes of  *)
(*            an EventManager, and the manager is finalized;               *)
(*   SpecHw   the generated hardware of an elaborated manager, one clock   *)
(*            cycle per step, the CSR bus and the triggers as inputs;      *)
(*   SpecSrc  the event sources alone in a test bench that drives trigger  *)
(*            and clear freely;                                            *)
(*   SpecShared  a SharedIRQ over a list of managers' irq lines.           *)
(***************************************************************************)
EXTENDS Integers, Sequences, FiniteSets, TLC

\* Bounds of the model.
MaxSources == 2     \* event sources created (DUIDs handed out)
NumAttrs == 2       \* attribute names of the manager that may hold a source
MaxAttach == 2      \* assignments of a source to an attribute of the manager
MaxManagers == 6    \* managers handed to a SharedIRQ

Kinds == {"Pulse", "Process", "Level"}
NoName == "None"                       \* Python's None as a source name
NameSeq == <<"rx", "tx">>             \* the names sources are given
Names == {NameSeq[i] : i \in 1..Len(NameSeq)}
Bit == {0, 1}

VARIABLES
    nextDuid,     \* DUID counter: the id the next created source gets
    src,          \* src[d]: the source with duid d, [kind, name]
    attrs,        \* attrs[a]: the source held by attribute a (0: none);
                  \* attributes are numbered in the order dir() lists them
    submodules,   \* the manager's submodules, in the order they were added
    rejected,     \* attribute assignments that raised FinalizeError so far
    finalized,    \* Module.finalized
    finalize_calls, \* calls of finalize() so far: 0, 1, or 2 for two or more
    raised,       \* the exception the last operation raised, or "none"
    elab,         \* how do_finalize ended: "not_run", "ok" or the exception
    sources,      \* do_finalize's sorted source list: sources[i+1] has bit i
    regs,         \* the status, pending and enable registers' field names
    wired,        \* sources whose status/pending/clear wiring was added
    irq_wired,    \* whether do_finalize got to drive irq
    trigger,      \* per source: the trigger input in this cycle
    status,       \* per source: the status output in this cycle
    pending,      \* per source: the pending output in this cycle
    clear,        \* per source: the clear input in this cycle
    old_trigger,  \* per source (Process): trigger as sampled at the last edge
    enable,       \* the enable register's storage, enable[i+1] is bit i
    bus,          \* the CSR access of this cycle: [op, dat]
    irq,          \* the manager's irq output in this cycle
    prev_trigger, \* test bench: per source, trigger in the cycle before
    ev_irqs,      \* SharedIRQ: the irq lines of its managers, in list order
    shared_irq    \* SharedIRQ.irq

elabVars == <<nextDuid, src, attrs, submodules, rejected, finalized,
              finalize_calls, raised, elab, sources, regs, wired, irq_wired>>
hwVars == <<trigger, status, pending, clear, old_trigger, enable, bus, irq,
            prev_trigger, ev_irqs, shared_irq>>
vars == <<nextDuid, src, attrs, submodules, rejected, finalized,
          finalize_calls, raised, elab, sources, regs, wired, irq_wired,
          trigger, status, pending, clear, old_trigger, enable, bus, irq,
          prev_trigger, ev_irqs, shared_irq>>

Duids == 1..MaxSources
AttrNames == 1..NumAttrs
Created == 1..Len(src)

----------------------------------------------------------------------------
(* Elaboration *)

\* xdir(self, True) filtered by isinstance(v, _EventSource): the attribute
\* values that are sources, in the order of the attribute names.
RECURSIVE CollectFrom(_, _)
CollectFrom(at, a) ==
    IF a > NumAttrs THEN <<>>
    ELSE IF at[a] # 0 THEN <<at[a]>> \o CollectFrom(at, a + 1)
    ELSE CollectFrom(at, a + 1)

sources_u(at) == CollectFrom(at, 1)

\* sorted(..., key=lambda x: x.duid): a stable insertion of each element
\* behind the elements whose duid is not larger.
RECURSIVE InsertByDuid(_, _)
InsertByDuid(s, x) ==
    IF s = <<>> THEN <<x>>
    ELSE IF x < Head(s) THEN <<x>> \o s
    ELSE <<Head(s)>> \o InsertByDuid(Tail(s), x)

RECURSIVE SortRec(_)
SortRec(s) ==
    IF s = <<>> THEN <<>>
    ELSE InsertByDuid(SortRec(SubSeq(s, 1, Len(s) - 1)), s[Len(s)])

\* A do_finalize that keeps the attribute order (no sort).
Unsorted(s) == s

SortedByDuid(s) == SortRec(s)

\* "event{}".format(i)
EventNames == <<"event0", "event1", "event2", "event3", "event4">>
EventName(i) == EventNames[i + 1]

\* The name a source's field gets at bit i: its own, or the fallback.
FieldName(sr, s, i) ==
    IF sr[s].name # NoName THEN sr[s].name ELSE EventName(i)

FieldsOf(sr, ss) == [i \in 1..Len(ss) |-> FieldName(sr, ss[i], i - 1)]

NoRegs == [made |-> FALSE, status |-> <<>>, pending |-> <<>>, enable |-> <<>>]

\* The wiring loop: the number of sources wired before getattr(fields, None)
\* raises TypeError (all of them when every source has a name).
RECURSIVE WiredCount(_, _, _)
WiredCount(sr, ss, i) ==
    IF i > Len(ss) THEN Len(ss)
    ELSE IF sr[ss[i]].name = NoName THEN i - 1
    ELSE WiredCount(sr, ss, i + 1)

\* CSRStatus and CSRStorage take any list of field names: names that collide
\* are not refused.
CSRFieldsAccepted(fs) == TRUE

\* How do_finalize ends for the sorted source list ss.
FinalizeOutcome(sr, ss) ==
    IF Len(ss) = 0 THEN "UnboundLocalError"    \* desc is never assigned
    ELSE IF ~CSRFieldsAccepted(FieldsOf(sr, ss)) THEN "ValueError"
    ELSE IF WiredCount(sr, ss, 1) < Len(ss) THEN "TypeError"
    ELSE "ok"

\* do_finalize on the sources sr and the attributes at: what it leaves behind.
do_finalize(sr, at) ==
    LET ss == SortedByDuid(sources_u(at))
        out == FinalizeOutcome(sr, ss)
        fs == FieldsOf(sr, ss)
    IN [sources |-> ss,
        elab |-> out,
        regs |-> IF Len(ss) = 0 THEN NoRegs
                 ELSE [made |-> TRUE, status |-> fs, pending |-> fs,
                       enable |-> fs],
        wired |-> WiredCount(sr, ss, 1),
        irq_wired |-> (out = "ok")]

AllZero == [d \in Duids |-> 0]
IdleBus(n) == [op |-> "idle", dat |-> [i \in 1..n |-> 0]]

InitElab ==
    /\ nextDuid = 1
    /\ src = <<>>
    /\ attrs = [a \in AttrNames |-> 0]
    /\ submodules = <<>>
    /\ rejected = 0
    /\ finalized = FALSE
    /\ finalize_calls = 0
    /\ raised = "none"
    /\ elab = "not_run"
    /\ sources = <<>>
    /\ regs = NoRegs
    /\ wired = 0
    /\ irq_wired = FALSE

InitHwReset(n) ==
    /\ trigger = AllZero
    /\ status = AllZero
    /\ pending = AllZero
    /\ clear = AllZero
    /\ old_trigger = AllZero
    /\ enable = [i \in 1..n |-> 0]
    /\ bus = IdleBus(n)
    /\ irq = 0
    /\ prev_trigger = AllZero

\* No SharedIRQ has been built.
NoShared ==
    /\ ev_irqs = <<>>
    /\ shared_irq = 0

Init == InitElab /\ InitHwReset(0) /\ NoShared

\* _EventSource.__init__: a new source, with the next duid.
Create(k, nm) ==
    /\ nextDuid <= MaxSources
    /\ src' = Append(src, [kind |-> k, name |-> nm])
    /\ nextDuid' = nextDuid + 1
    /\ raised' = "none"
    /\ UNCHANGED <<attrs, submodules, rejected, finalized, finalize_calls,
                   elab, sources, regs, wired, irq_wired>>
    /\ UNCHANGED hwVars

\* A __setattr__ that does not look at self.finalized.
SetAttrUnchecked(a, s) ==
    /\ Len(submodules) + rejected < MaxAttach
    /\ attrs' = [attrs EXCEPT ![a] = s]
    /\ submodules' = Append(submodules, s)
    /\ raised' = "none"
    /\ UNCHANGED <<nextDuid, src, rejected, finalized, finalize_calls, elab,
                   sources, regs, wired, irq_wired>>
    /\ UNCHANGED hwVars

\* EventManager.__setattr__(name, value) with an event source as value, on a
\* manager that is not finalized.
SetAttr(a, s) ==
    /\ ~finalized
    /\ Len(submodules) < MaxAttach
    /\ attrs' = [attrs EXCEPT ![a] = s]
    /\ submodules' = Append(submodules, s)
    /\ raised' = "none"
    /\ UNCHANGED <<nextDuid, src, rejected, finalized, finalize_calls, elab,
                   sources, regs, wired, irq_wired>>
    /\ UNCHANGED hwVars

\* A check of finalized made after the source was added as a submodule.
SetAttrFinalizedAdds(a, s) ==
    /\ finalized
    /\ Len(submodules) + rejected < MaxAttach
    /\ attrs' = [attrs EXCEPT ![a] = s]
    /\ submodules' = Append(submodules, s)
    /\ rejected' = rejected + 1
    /\ raised' = "FinalizeError"
    /\ UNCHANGED <<nextDuid, src, finalized, finalize_calls, elab,
                   sources, regs, wired, irq_wired>>
    /\ UNCHANGED hwVars

\* The same on a finalized manager: the attribute is set, then FinalizeError.
SetAttrFinalized(a, s) ==
    /\ finalized
    /\ Len(submodules) + rejected < MaxAttach
    /\ attrs' = [attrs EXCEPT ![a] = s]
    /\ rejected' = rejected + 1
    /\ raised' = "FinalizeError"
    /\ UNCHANGED <<nextDuid, src, submodules, finalized, finalize_calls, elab,
                   sources, regs, wired, irq_wired>>
    /\ UNCHANGED hwVars

\* Module.finalize() on a manager that is not finalized: do_finalize runs.
Finalize ==
    /\ ~finalized
    /\ finalized' = TRUE
    /\ finalize_calls' = 1
    /\ LET r == do_finalize(src, attrs)
       IN /\ sources' = r.sources
          /\ elab' = r.elab
          /\ raised' = IF r.elab = "ok" THEN "none" ELSE r.elab
          /\ regs' = r.regs
          /\ wired' = r.wired
          /\ irq_wired' = r.irq_wired
          /\ enable' = [i \in 1..Len(r.sources) |-> 0]
          /\ bus' = IdleBus(Len(r.sources))
    /\ UNCHANGED <<nextDuid, src, attrs, submodules, rejected>>
    /\ UNCHANGED <<trigger, status, pending, clear, old_trigger, irq,
                   prev_trigger, ev_irqs, shared_irq>>

\* A finalize() that runs do_finalize again on a finalized manager.
FinalizeRerun ==
    /\ finalized
    /\ finalize_calls' = 2
    /\ LET r == do_finalize(src, attrs)
       IN /\ sources' = r.sources
          /\ elab' = r.elab
          /\ raised' = IF r.elab = "ok" THEN "none" ELSE r.elab
          /\ regs' = r.regs
          /\ wired' = r.wired
          /\ irq_wired' = r.irq_wired
          /\ enable' = [i \in 1..Len(r.sources) |-> 0]
          /\ bus' = IdleBus(Len(r.sources))
    /\ UNCHANGED <<nextDuid, src, attrs, submodules, rejected, finalized>>
    /\ UNCHANGED <<trigger, status, pending, clear, old_trigger, irq,
                   prev_trigger, ev_irqs, shared_irq>>

\* Module.finalize() on a finalized manager: do_finalize is not run, the
\* call returns.
FinalizeAgain ==
    /\ finalized
    /\ finalize_calls' = 2
    /\ raised' = "none"
    /\ UNCHANGED <<nextDuid, src, attrs, submodules, rejected, finalized, elab,
                   sources, regs, wired, irq_wired>>
    /\ UNCHANGED hwVars

Next ==
    \/ \E k \in Kinds, nm \in Names \cup {NoName} : Create(k, nm)
    \/ \E a \in AttrNames, s \in Created : SetAttr(a, s)
    \/ \E a \in AttrNames, s \in Created : SetAttrFinalized(a, s)
    \/ Finalize
    \/ FinalizeAgain

Spec == Init /\ [][Next]_vars

----------------------------------------------------------------------------
(* The event sources' logic *)

\* A Pulse source whose clear is tested after its trigger.
PulseSyncClearWins(p, trig, clr) ==
    IF clr = 1 THEN 0 ELSE IF trig = 1 THEN 1 ELSE p

\* EventSourcePulse's sync block: If(clear, pending.eq(0)), then
\* If(trigger, pending.eq(1)); the later assignment wins.
PulseSync(p, trig, clr) ==
    IF trig = 1 THEN 1 ELSE IF clr = 1 THEN 0 ELSE p

\* A Process source whose clear is applied after the falling-edge set.
ProcessSyncClearWins(p, trig, old, clr) ==
    IF clr = 1 THEN 0 ELSE IF trig = 0 /\ old = 1 THEN 1 ELSE p

\* A Process source that latches the rising edge.
ProcessSyncRising(p, trig, old, clr) ==
    IF trig = 1 /\ old = 0 THEN 1 ELSE IF clr = 1 THEN 0 ELSE p

\* EventSourceProcess's sync block: If(clear, pending.eq(0)), then
\* old_trigger.eq(trigger), then If(~trigger & old_trigger, pending.eq(1));
\* every right-hand side reads the values before the edge.
ProcessSync(p, trig, old, clr) ==
    IF trig = 0 /\ old = 1 THEN 1 ELSE IF clr = 1 THEN 0 ELSE p

ProcessOld(trig, old) == trig

\* A Level source that leaves pending undriven.
LevelPendingUndriven(trig) == 0

\* EventSourceLevel: pending.eq(trigger), combinational.
LevelPending(trig) == trig

\* A status that follows trigger for every kind.
StatusCombRaw(k, trig) == trig

\* status: constant 0 (Pulse), trigger (Process, Level), combinational.
StatusComb(k, trig) == IF k = "Pulse" THEN 0 ELSE trig

\* pending of source d after the clock edge, trigger being t in the new cycle.
PendingNext(d, t) ==
    IF src[d].kind = "Pulse"
        THEN PulseSync(pending[d], trigger[d], clear[d])
    ELSE IF src[d].kind = "Process"
        THEN ProcessSync(pending[d], trigger[d], old_trigger[d], clear[d])
    ELSE LevelPending(t)

OldNext(d) ==
    IF src[d].kind = "Process" THEN ProcessOld(trigger[d], old_trigger[d])
    ELSE 0

\* The levels of a one-bit input per source: any on the sources in act.
LevelsOver(act) ==
    {t \in [Duids -> Bit] : \A d \in Duids \ act : t[d] = 0}

----------------------------------------------------------------------------
(* The logic do_finalize generates *)

Range(s) == {s[i] : i \in 1..Len(s)}

\* A lookup that resolves every name to the first field.
FieldIndexFirst(fs, nm) == 1

\* getattr(register.fields, name): the field of that name.
FieldIndex(fs, nm) == CHOOSE j \in 1..Len(fs) : fs[j] = nm

\* The source whose signal is wired to field j.
FieldDriver(fs, j) == CHOOSE s \in Range(sources) : src[s].name = fs[j]

\* The status and pending registers' values, bit i at index i+1.
StatusCSR(st) ==
    [j \in 1..Len(regs.status) |-> st[FieldDriver(regs.status, j)]]

PendingCSR(p) ==
    [j \in 1..Len(regs.pending) |-> p[FieldDriver(regs.pending, j)]]

\* The pending register's write strobe.
pending_re(b) == IF b.op = "wr_pending" THEN 1 ELSE 0

\* A clear gated with the write strobe of the enable register.
ManagerClearOnEnableWrite(b, p, nm) ==
    IF b.op = "wr_enable" /\ PendingCSR(p)[FieldIndex(regs.pending, nm)] = 1
    THEN 1 ELSE 0

\* If(self.pending.re & getattr(self.pending.fields, source.name),
\*    source.clear.eq(1)): clear of the source named nm.
ManagerClear(b, p, nm) ==
    IF pending_re(b) = 1 /\ PendingCSR(p)[FieldIndex(regs.pending, nm)] = 1
    THEN 1 ELSE 0

\* reduce(or_, irqs) over a non-empty list.
RECURSIVE ReduceOr(_)
ReduceOr(s) ==
    IF Len(s) = 1 THEN s[1]
    ELSE IF ReduceOr(SubSeq(s, 1, Len(s) - 1)) = 1 \/ s[Len(s)] = 1 THEN 1
    ELSE 0

\* irq terms that leave the enable mask out.
IrqTermsUnmasked(pcsr, en) ==
    [i \in 1..Len(sources) |-> pcsr[i]]

\* irqs = [pending.status[i] & enable.storage[i] for i in range(n)].
IrqTerms(pcsr, en) ==
    [i \in 1..Len(sources) |-> IF pcsr[i] = 1 /\ en[i] = 1 THEN 1 ELSE 0]

IrqComb(pcsr, en) == ReduceOr(IrqTerms(pcsr, en))

\* A manager whose acknowledge also drops the enable bits.
EnableHwAckClears(en, b, p) ==
    IF b.op = "wr_pending" THEN [i \in 1..Len(en) |-> 0] ELSE en

\* What do_finalize's logic writes to the enable storage: nothing.
EnableHw(en, b, p) == en

\* The enable register, a CSRStorage: a bus write replaces the storage.
CSRStorageNext(en, b) == IF b.op = "wr_enable" THEN b.dat ELSE en

BusOps(n) ==
    {IdleBus(n)} \cup
    {[op |-> o, dat |-> d] : o \in {"wr_pending", "wr_enable"},
                             d \in [1..n -> Bit]}

\* One clock cycle of an elaborated manager and its sources: the registers
\* take their next values, the inputs of the new cycle are t and b.
HwCycle ==
    /\ elab = "ok"
    /\ \E t \in LevelsOver(Range(sources)), b \in BusOps(Len(sources)) :
         /\ trigger' = t
         /\ bus' = b
         /\ pending' = [d \in Duids |->
                          IF d \in Range(sources) THEN PendingNext(d, t[d])
                          ELSE 0]
         /\ status' = [d \in Duids |->
                         IF d \in Range(sources)
                         THEN StatusComb(src[d].kind, t[d]) ELSE 0]
         /\ old_trigger' = [d \in Duids |->
                              IF d \in Range(sources) THEN OldNext(d) ELSE 0]
         /\ clear' = [d \in Duids |->
                        IF d \in Range(sources)
                        THEN ManagerClear(b, pending', src[d].name) ELSE 0]
         /\ enable' = CSRStorageNext(EnableHw(enable, bus, pending), bus)
         /\ irq' = IrqComb(PendingCSR(pending'), enable')
    /\ UNCHANGED <<prev_trigger, ev_irqs, shared_irq>>
    /\ UNCHANGED elabVars

\* An elaborated manager with n sources of kinds ks, named apart, assigned to
\* the attributes in the reverse of their creation order.
Elaborated(n, ks) ==
    LET sr == [d \in 1..n |-> [kind |-> ks[d], name |-> NameSeq[d]]]
        at == [a \in AttrNames |-> IF a <= n THEN n + 1 - a ELSE 0]
        r == do_finalize(sr, at)
    IN /\ nextDuid = n + 1
       /\ src = sr
       /\ attrs = at
       /\ submodules = [i \in 1..n |-> n + 1 - i]
       /\ rejected = 0
       /\ finalized = TRUE
       /\ finalize_calls = 1
       /\ raised = "none"
       /\ elab = r.elab
       /\ sources = r.sources
       /\ regs = r.regs
       /\ wired = r.wired
       /\ irq_wired = r.irq_wired
       /\ InitHwReset(n)
       /\ NoShared

\* The widths of the managers whose hardware is run: one source per name.
HwSizes ==
    {n \in 1..MaxSources : n <= NumAttrs /\ n <= MaxAttach /\ n <= Len(NameSeq)}

InitHw == \E n \in HwSizes : \E ks \in [1..n -> Kinds] : Elaborated(n, ks)

NextHw == HwCycle

SpecHw == InitHw /\ [][NextHw]_vars

----------------------------------------------------------------------------
(* The event sources in a test bench *)

\* n sources of kinds ks, created and attached to no manager.
Standalone(n, ks) ==
    /\ nextDuid = n + 1
    /\ src = [d \in 1..n |-> [kind |-> ks[d], name |-> NoName]]
    /\ attrs = [a \in AttrNames |-> 0]
    /\ submodules = <<>>
    /\ rejected = 0
    /\ finalized = FALSE
    /\ finalize_calls = 0
    /\ raised = "none"
    /\ elab = "not_run"
    /\ sources = <<>>
    /\ regs = NoRegs
    /\ wired = 0
    /\ irq_wired = FALSE
    /\ InitHwReset(0)
    /\ NoShared

InitSrc == \E n \in 1..MaxSources : \E ks \in [1..n -> Kinds] : Standalone(n, ks)

\* One clock cycle of the sources: the test bench drives trigger and clear.
SrcCycle ==
    /\ \E t \in LevelsOver(Created), c \in LevelsOver(Created) :
         /\ trigger' = t
         /\ clear' = c
         /\ pending' = [d \in Duids |->
                          IF d \in Created THEN PendingNext(d, t[d]) ELSE 0]
         /\ status' = [d \in Duids |->
                         IF d \in Created THEN StatusComb(src[d].kind, t[d])
                         ELSE 0]
         /\ old_trigger' = [d \in Duids |->
                              IF d \in Created THEN OldNext(d) ELSE 0]
    /\ prev_trigger' = trigger
    /\ UNCHANGED <<enable, bus, irq, ev_irqs, shared_irq>>
    /\ UNCHANGED elabVars

NextSrc == SrcCycle

SpecSrc == InitSrc /\ [][NextSrc]_vars

-----------------------------------------------------------------------------
(* SharedIRQ: one irq line for a list of event managers *)

\* An irq that follows the first manager of the list only.
SharedIrqFirst(irqs) == irqs[1]

\* self.irq.eq(reduce(or_, [ev.irq for ev in event_managers]))
SharedIrqComb(irqs) == ReduceOr(irqs)

\* SharedIRQ(*event_managers) over 1..MaxManagers managers, their irq lines
\* at reset.
InitShared ==
    /\ InitElab
    /\ InitHwReset(0)
    /\ \E n \in 1..MaxManagers :
          /\ ev_irqs = [i \in 1..n |-> 0]
          /\ shared_irq = SharedIrqComb(ev_irqs)

\* One evaluation of the combinatorial assignment: the managers drive their
\* irq lines, the shared irq follows.
SharedComb ==
    /\ Len(ev_irqs) >= 1
    /\ \E v \in [1..Len(ev_irqs) -> Bit] :
          /\ ev_irqs' = v
          /\ shared_irq' = SharedIrqComb(v)
    /\ UNCHANGED <<trigger, status, pending, clear, old_trigger, enable, bus,
                   irq, prev_trigger>>
    /\ UNCHANGED elabVars

NextShared == SharedComb

SpecShared == InitShared /\ [][NextShared]_vars

----------------------------------------------------------------------------
(* Properties *)

\* The sources the manager's attributes hold.
Attached == {attrs[a] : a \in AttrNames} \ {0}

\* No source is held by two attributes.
HeldOnce ==
    \A a, b \in AttrNames : a # b /\ attrs[a] # 0 => attrs[a] # attrs[b]

\* The rank of source s among the sources in S, by creation id.
IdRank(s, S) == Cardinality({u \in S : u < s})

\* C1: after finalize (and before any later attribute assignment), when each
\* source is held once, every attached source has exactly one bit, and its
\* bit index is its rank by creation id among the attached sources, whatever
\* the order of the attribute assignments was.
C1_BitIndexIsIdRank ==
    (finalized /\ rejected = 0 /\ HeldOnce) =>
        /\ Len(sources) = Cardinality(Attached)
        /\ \A s \in Attached :
             \E i \in 1..Len(sources) :
                 sources[i] = s /\ i - 1 = IdRank(s, Attached)

\* Two sources, assigned in the reverse of their creation order, to
\* attributes listed in the reverse order too, finalized.
C1_Witness ==
    /\ finalized /\ rejected = 0 /\ elab = "ok"
    /\ submodules = <<2, 1>>
    /\ attrs[1] = 2 /\ attrs[2] = 1
    /\ sources = <<1, 2>>

\* C2: irq is 1 exactly when some bit is pending and enabled.
C2_IrqIsOrOfPendingAndEnable ==
    /\ irq \in Bit
    /\ irq = 1 <=> \E i \in 1..Len(sources) :
                       pending[sources[i]] = 1 /\ enable[i] = 1

\* irq is 1 for a bit that is pending and enabled, beside a bit that is
\* pending and disabled.
C2_Witness ==
    /\ Len(sources) = 2
    /\ irq = 1
    /\ pending[sources[1]] = 1 /\ enable[1] = 0
    /\ pending[sources[2]] = 1 /\ enable[2] = 1

\* C3: clear of the source at bit i is 1 exactly in the cycles in which the
\* pending register is written with bit i of the data set.
C3_ClearIsWriteOfOne ==
    \A i \in 1..Len(sources) :
        clear[sources[i]] = 1 <=> (bus.op = "wr_pending" /\ bus.dat[i] = 1)

\* C4: a Pulse source's pending is 1 after a cycle with trigger high, also
\* with clear high; once 1 it stays 1 until a cycle with clear high and
\* trigger low, after which it is 0.
C4_PulseLatch ==
    [][\A d \in Created : src[d].kind = "Pulse" =>
          /\ trigger[d] = 1 => pending'[d] = 1
          /\ (pending[d] = 1 /\ ~(clear[d] = 1 /\ trigger[d] = 0))
                => pending'[d] = 1
          /\ (clear[d] = 1 /\ trigger[d] = 0) => pending'[d] = 0]_vars

\* A pending Pulse source with trigger and clear both high.
C4_Witness ==
    \E d \in Created :
        /\ src[d].kind = "Pulse"
        /\ pending[d] = 1 /\ trigger[d] = 1 /\ clear[d] = 1

\* C5: a Process source's status is its trigger; old_trigger is the trigger
\* of the cycle before, so that old_trigger high with trigger low is the
\* falling edge; pending is 1 in the cycle after a falling edge, rises on
\* nothing else, and stays 1 while clear is low.
C5_ProcessFallingEdge ==
    [][\A d \in Created : src[d].kind = "Process" =>
          /\ status[d] = trigger[d] /\ status'[d] = trigger'[d]
          /\ old_trigger'[d] = trigger[d]
          /\ (old_trigger[d] = 1 /\ trigger[d] = 0) => pending'[d] = 1
          /\ (pending[d] = 0 /\ pending'[d] = 1)
                => (old_trigger[d] = 1 /\ trigger[d] = 0)
          /\ (pending[d] = 1 /\ clear[d] = 0) => pending'[d] = 1]_vars

\* A Process source that is pending, its trigger high again and sampled low.
C5_Witness ==
    \E d \in Created :
        /\ src[d].kind = "Process"
        /\ pending[d] = 1 /\ old_trigger[d] = 0 /\ trigger[d] = 1
        /\ status[d] = 1

\* C6: a Level source's status and pending are its trigger in every cycle,
\* whatever clear is.
C6_LevelMirrorsTrigger ==
    \A d \in Created : src[d].kind = "Level" =>
        status[d] = trigger[d] /\ pending[d] = trigger[d]

\* A Level source with trigger and clear high: pending is 1.
C6_Witness ==
    \E d \in Created :
        /\ src[d].kind = "Level"
        /\ trigger[d] = 1 /\ clear[d] = 1 /\ pending[d] = 1

\* C7: the status register is n bits wide and bit i is the status of the
\* source at bit i: 0 for a Pulse source, the trigger for the others.
C7_StatusRegister ==
    /\ Len(regs.status) = Len(sources)
    /\ \A i \in 1..Len(sources) :
         /\ StatusCSR(status)[i] = status[sources[i]]
         /\ StatusCSR(status)[i] =
               IF src[sources[i]].kind = "Pulse" THEN 0
               ELSE trigger[sources[i]]

\* A Pulse source at bit 0 with trigger high and status bit 0, beside a
\* source at bit 1 whose status bit is 1.
C7_Witness ==
    /\ Len(sources) = 2
    /\ src[sources[1]].kind = "Pulse" /\ trigger[sources[1]] = 1
    /\ StatusCSR(status) = <<0, 1>>

\* C8: the enable storage changes in no cycle but one in which the bus
\* writes the enable register.
C8_EnableOnlyWrittenBySoftware ==
    [][bus.op # "wr_enable" => enable' = enable]_vars

\* An enabled bit, while the pending register is written, a source is
\* cleared and a trigger is high.
C8_Witness ==
    /\ \E i \in 1..Len(sources) : enable[i] = 1
    /\ bus.op = "wr_pending"
    /\ \E d \in Range(sources) : clear[d] = 1
    /\ \E d \in Range(sources) : trigger[d] = 1

\* C9: finalize of a manager with no source succeeds: registers of width 0
\* and an irq that is driven, and 0.
C9_EmptyManagerFinalizes ==
    (finalized /\ Len(sources) = 0) =>
        /\ elab = "ok"
        /\ regs.made
        /\ Len(regs.status) = 0 /\ Len(regs.pending) = 0 /\ Len(regs.enable) = 0
        /\ irq_wired /\ irq = 0

\* C10: on a finalized manager every assignment of a source to an attribute
\* raises FinalizeError and adds no submodule.
C10_AttachAfterFinalizeFails ==
    [][finalized =>
         /\ submodules' = submodules
         /\ (attrs' # attrs \/ rejected' # rejected)
               => raised' = "FinalizeError"]_vars

\* A manager finalized with a source, then assigned another: FinalizeError.
C10_Witness ==
    /\ finalized /\ elab = "ok"
    /\ rejected = 1 /\ raised = "FinalizeError"
    /\ Len(submodules) = 1
    /\ \E a \in AttrNames : attrs[a] # 0 /\ attrs[a] \notin Range(sources)

C12_DuplicateAttachRejected ==
    /\ \A i, j \in 1..Len(submodules) :
           i # j => submodules[i] # submodules[j]
    /\ finalized =>
           \A i, j \in 1..Len(sources) : i # j => sources[i] # sources[j]

\* C13: a source without a name that is allocated bit i gets the field name
\* eventI in status, pending and enable, finalize succeeds, and every source
\* is wired.
C13_UnnamedSourceFallback ==
    (finalized /\ \E i \in 1..Len(sources) : src[sources[i]].name = NoName) =>
        /\ \A i \in 1..Len(sources) :
              src[sources[i]].name = NoName =>
                  /\ regs.status[i] = EventName(i - 1)
                  /\ regs.pending[i] = EventName(i - 1)
                  /\ regs.enable[i] = EventName(i - 1)
        /\ elab = "ok" /\ raised = "none"
        /\ wired = Len(sources)
        /\ irq_wired

\* The list s with the entries at i and j exchanged.
Swapped(s, i, j) ==
    [k \in 1..Len(s) |-> IF k = i THEN s[j] ELSE IF k = j THEN s[i] ELSE s[k]]

\* C14: the shared irq is 1 exactly when the irq of some manager of the
\* list is 1, and exchanging any two managers of the list gives the same
\* value.
C14_SharedIrqIsOrOfManagers ==
    Len(ev_irqs) >= 1 =>
        /\ shared_irq = 1 <=> \E i \in 1..Len(ev_irqs) : ev_irqs[i] = 1
        /\ shared_irq = 0 <=> \A i \in 1..Len(ev_irqs) : ev_irqs[i] = 0
        /\ \A i, j \in 1..Len(ev_irqs) :
              SharedIrqComb(Swapped(ev_irqs, i, j)) = shared_irq

\* Three managers or more, the first one's irq low, the last one's high.
C14_Witness ==
    /\ Len(ev_irqs) >= 3
    /\ ev_irqs[1] = 0 /\ ev_irqs[2] = 0
    /\ ev_irqs[Len(ev_irqs)] = 1
    /\ shared_irq = 1

\* The condition that sets the pending of the latching source d in this
\* cycle: trigger high for a Pulse source, a falling edge for a Process one.
SetCondition(d) ==
    IF src[d].kind = "Pulse" THEN trigger[d] = 1
    ELSE trigger[d] = 0 /\ old_trigger[d] = 1

\* C15: when the bus writes the pending register with bit i set, the Pulse
\* or Process source at bit i is pending and nothing sets it in that cycle,
\* then in the next cycle its pending is 0 and irq is 0 unless another bit
\* is pending and enabled; a Level source with trigger high and its enable
\* bit set holds irq at 1.
C15_AcknowledgeClearsNextCycle ==
    [][\A i \in 1..Len(sources) :
         LET d == sources[i] IN
         /\ (/\ src[d].kind \in {"Pulse", "Process"}
             /\ bus.op = "wr_pending" /\ bus.dat[i] = 1
             /\ pending[d] = 1
             /\ ~SetCondition(d))
            => /\ pending'[d] = 0
               /\ irq' = 1 =>
                    \E j \in 1..Len(sources) :
                        j # i /\ pending'[sources[j]] = 1 /\ enable'[j] = 1
         /\ (src[d].kind = "Level" /\ trigger'[d] = 1 /\ enable'[i] = 1)
            => irq' = 1]_vars

\* The acknowledge cycle: the source at bit i, latching, pending and
\* enabled, is written with bit i set while nothing sets it, so its clear is
\* high; irq is high for it alone, the other source being a Level source
\* with trigger low.
C15_Witness ==
    /\ Len(sources) = 2
    /\ irq = 1
    /\ bus.op = "wr_pending"
    /\ \E i \in 1..2 :
          /\ src[sources[i]].kind \in {"Pulse", "Process"}
          /\ pending[sources[i]] = 1
          /\ bus.dat[i] = 1
          /\ ~SetCondition(sources[i])
          /\ clear[sources[i]] = 1
          /\ enable[i] = 1
          /\ \E j \in 1..2 :
                /\ j # i
                /\ src[sources[j]].kind = "Level"
                /\ enable[j] = 1 /\ trigger[sources[j]] = 0

\* C16: finalize of a manager with two sources that share a name ends with
\* a diagnostic, and not with registers whose field names collide.
C16_NameCollisionDiagnosed ==
    (/\ finalized
     /\ \E i, j \in 1..Len(sources) :
           /\ sources[i] # sources[j]
           /\ src[sources[i]].name # NoName
           /\ src[sources[i]].name = src[sources[j]].name)
    => elab # "ok"

\* C17: for a Process source the falling-edge set is applied after the
\* clear: a cycle with clear high, trigger low and old_trigger high leaves
\* pending at 1, a cycle with clear high and no falling edge leaves it at 0;
\* and old_trigger takes the trigger of the cycle, whatever clear and
\* pending are.
C17_ProcessSetWinsOverClear ==
    [][\A d \in Created : src[d].kind = "Process" =>
          /\ (clear[d] = 1 /\ trigger[d] = 0 /\ old_trigger[d] = 1)
                => pending'[d] = 1
          /\ (clear[d] = 1 /\ ~(trigger[d] = 0 /\ old_trigger[d] = 1))
                => pending'[d] = 0
          /\ old_trigger'[d] = trigger[d]]_vars

\* A pending Process source in a cycle with a falling edge and clear high.
C17_Witness ==
    \E d \in Created :
        /\ src[d].kind = "Process"
        /\ pending[d] = 1 /\ clear[d] = 1
        /\ trigger[d] = 0 /\ old_trigger[d] = 1

\* C18: a Pulse source is triggered on the rising edge: its pending goes
\* from 0 to 1 only in a cycle in which trigger is high after a cycle in
\* which it was low, and while trigger is held high a clear leaves pending
\* at 0.
C18_PulseRisingEdgeOnly ==
    [][\A d \in Created : src[d].kind = "Pulse" =>
          /\ (pending[d] = 0 /\ pending'[d] = 1)
                => (prev_trigger[d] = 0 /\ trigger[d] = 1)
          /\ (prev_trigger[d] = 1 /\ trigger[d] = 1 /\ clear[d] = 1)
                => pending'[d] = 0]_vars

\* The next pending of the latching source d, from its own signals and the
\* pending register's write strobe alone.
OwnNext(d) ==
    LET cleared == bus.op = "wr_pending" /\ pending[d] = 1
    IN IF SetCondition(d) THEN 1 ELSE IF cleared THEN 0 ELSE pending[d]

C20_FinalizedIsFrozen ==
    [][finalized =>
          /\ finalized'
          /\ UNCHANGED <<submodules, sources, regs, elab, wired, irq_wired>>
          /\ rejected' # rejected =>
                /\ raised' = "FinalizeError"
                /\ Len(regs.status') = Len(regs.status)
                /\ Len(regs.pending') = Len(regs.pending)
                /\ Len(regs.enable') = Len(regs.enable)]_vars

\* A finalized manager with one source, finalized again and then assigned
\* another source: rejected, one submodule and one bit as before.
C20_Witness ==
    /\ finalized /\ finalize_calls = 2
    /\ rejected >= 1 /\ raised = "FinalizeError"
    /\ Len(submodules) = 1 /\ Len(sources) = 1 /\ Len(regs.pending) = 1
    /\ \E a \in AttrNames : attrs[a] # 0 /\ attrs[a] \notin Range(sources)

====
